---- MODULE Spec2Model ----
(***************************************************************************)
(* qreader.go: a four stage pipeline.  Reader frames the byte source into  *)
(* chunks (chan1), Parser turns each chunk into a batch of conn records    *)
(* (chan2), Reducer folds each batch into a partial tally (chan3),         *)
(* Combiner merges the tallies, prints the report and closes chan4, which  *)
(* main drains.                                                            *)
(*                                                                         *)
(* Bytes are their ASCII codes.  Go slices are 0-based, TLA+ sequences are *)
(* 1-based: buffer[i] of the source is buffer[i + 1] here.                 *)
(*                                                                         *)
(* A local value that is used more than once is bound by a quantifier over *)
(* a one element set (\E x \in {e}, {f(x) : x \in {e}}) rather than by LET:  *)
(* TLC evaluates a bound variable once, and a LET definition or an         *)
(* operator argument again at every use when it evaluates ENABLED.         *)
(***************************************************************************)
EXTENDS Integers, Sequences, FiniteSets, Bags, TLC

VARIABLES
    input,      \* the bytes the byte source will deliver (fixed per run)
    bsize,      \* Reader.bsize, the -b flag
    shorts,     \* GetReader: how many short reads the byte source will still deliver
                \* (0 for a regular file, which fills every block but the last;
                \* a pipe from the unzipper returns whatever is there)
    failAt,     \* offset at which Read returns an error other than EOF; -1 = never
    cfg,        \* [chansize, ParserPool, ReducerPool]: capacities main creates
    rpc,        \* Reader.Start: "read" | "closed"
    pos,        \* bytes of input consumed by Read so far
    leftovers,  \* Reader.Start's leftovers slice
    emitted,    \* history: every chunk sent on chan1, with the input range it covers
    lastRead,   \* history: what the last loop iteration of Reader.Start read and sent
    chan1, closed1,
    ppc,        \* Parser.Start: "recv" | "acquire" | "poll" | "done"
    pheld,      \* the fileslice Parser.Start holds while acquiring a slot
    limiter1,   \* len(limiter1)
    parsing,    \* bag of chunks: Parse tasks that have not yet sent their batch
    psent,      \* number of Parse tasks that have sent and not yet released
    chan2, closed2,
    rdpc, rdheld, limiter2, reducing, rdsent,
    chan3, closed3,
    cpc,        \* Combiner.Start: "recv" | "send" | "report" | "close" | "done"
    final,      \* Combiner.Start's final map
    csub,       \* len(subresult) waiting to be sent on chan4
    merged,     \* history: the partial tallies merged so far, in order
    printed,    \* the lines Report printed, one sequence per call of Report
    chan4, closed4,
    mpc,        \* main: "loop" | "returned"
    total_done, sampler,
    events,     \* history: the order of close / report / return events
    crashed,    \* "" | the reason of an unrecovered panic (the process dies)
    failed      \* TRUE after Error.Fatalln (os.Exit(1))

readerVars == <<input, bsize, shorts, failAt, cfg, rpc, pos, leftovers, emitted, lastRead,
                chan1, closed1>>
parserVars == <<ppc, pheld, limiter1, parsing, psent, chan2, closed2>>
reducerVars == <<rdpc, rdheld, limiter2, reducing, rdsent, chan3, closed3>>
combinerVars == <<cpc, final, csub, merged, printed, chan4, closed4>>
mainVars == <<mpc, total_done, sampler>>
vars == <<readerVars, parserVars, reducerVars, combinerVars, mainVars,
          events, crashed, failed>>

(***************************************************************************)
(* Program constants.                                                      *)
(***************************************************************************)
NL == 10
HASH == 35
TAB == 9
NUL == 0
ParserPool == 6
ReducerPool == 2
chansize == 10000
TopN == 10
OrigField == 2
RespField == 4
Bytes1Field == 16
Bytes2Field == 18
\* "128.252."
Prefix == <<49, 50, 56, 46, 50, 53, 50, 46>>

(***************************************************************************)
(* Bounds of the model.                                                    *)
(***************************************************************************)
MaxInputLen == 5
MaxBsize == 4
MaxLines == 2
BsizeSmall == 40
BsizeLarge == 80
BsizeWhole == 400
MaxKeys == 11
SmallKeys == 3
MaxVal == 2

Min(a, b) == IF a < b THEN a ELSE b

\* make([]byte, n): n zero bytes
Zeros(n) == [i \in 1..n |-> NUL]

(***************************************************************************)
(* Reader                                                                  *)
(***************************************************************************)
\* buffer := make([]byte, bsize); length, err := reader.Read(buffer)
\* The first length bytes are the next bytes of the source, the rest of the
\* block keeps the zero bytes make() put there.
Buffer(length) == SubSeq(input, pos + 1, pos + length) \o Zeros(bsize - length)

\* The lengths one Read may return with remaining > 0 bytes left: a regular
\* file fills the block (or returns what is left), a pipe may return any
\* positive count up to that.
ReadLens ==
    LET most == Min(bsize, Len(input) - pos)
    IN  IF shorts > 0 THEN 1..most ELSE {most}

\* Mutant of ScanBack: the scan runs forward from index 1 and stops at the
\* first newline.
ScanFirst(buffer, end_it) ==
    IF \E i \in 1..end_it : buffer[i + 1] = NL
    THEN CHOOSE i \in 1..end_it :
           buffer[i + 1] = NL /\ \A j \in 1..(i - 1) : buffer[j + 1] # NL
    ELSE 0

\* The inner loop of Reader.Start: scan back from end_it for a newline;
\* index 0 is never examined.  Returns the final end_it (0 = none found).
RECURSIVE ScanBack(_, _)
ScanBack(buffer, end_it) ==
    IF end_it = 0 THEN 0
    ELSE IF buffer[end_it + 1] = NL THEN end_it
    ELSE ScanBack(buffer, end_it - 1)

\* Every goroutine stops when the process dies: a panic, Error.Fatalln, or
\* main returning.
Running == crashed = "" /\ ~failed /\ mpc = "loop"

\* Mutant of ReaderRead: the backward scan also examines index 0, and a
\* newline found there ends a chunk.
ReaderReadFromZero ==
    /\ Running /\ rpc = "read"
    /\ pos # failAt
    /\ pos < Len(input)
    /\ \E length \in ReadLens : \E buffer \in {Buffer(length)} :
       \E end_it \in {IF \E i \in 0..(length - 1) : buffer[i + 1] = NL
                      THEN CHOOSE i \in 0..(length - 1) :
                             /\ buffer[i + 1] = NL
                             /\ \A j \in (i + 1)..(length - 1) : buffer[j + 1] # NL
                      ELSE -1} :
         LET from == IF emitted = <<>> THEN 0 ELSE emitted[Len(emitted)].to + 1
         IN  /\ pos' = pos + length
             /\ shorts' = IF length < Min(bsize, Len(input) - pos)
                          THEN shorts - 1 ELSE shorts
             /\ IF end_it = -1
                THEN /\ leftovers' = leftovers \o buffer
                     /\ UNCHANGED <<chan1, emitted>>
                     /\ lastRead' = [block |-> SubSeq(buffer, 1, length), sent |-> 0,
                                     pending |-> lastRead.pending + 1]
                ELSE LET chunk == leftovers \o SubSeq(buffer, 1, end_it)
                     IN  /\ Len(chan1) < cfg.chansize
                         /\ chan1' = Append(chan1, chunk)
                         /\ emitted' = Append(emitted,
                                [bytes |-> chunk, from |-> from, to |-> pos + end_it,
                                 reads |-> lastRead.pending + 1])
                         /\ leftovers' = SubSeq(buffer, end_it + 2, bsize)
                         /\ lastRead' = [block |-> SubSeq(buffer, 1, length), sent |-> 1,
                                         pending |-> IF end_it + 1 < length THEN 1 ELSE 0]
    /\ UNCHANGED <<input, bsize, failAt, cfg, rpc, closed1>>
    /\ UNCHANGED <<parserVars, reducerVars, combinerVars, mainVars, events, crashed, failed>>

\* One iteration of the outer loop of Reader.Start that reads length > 0 bytes:
\* the read, the backward scan, and either the append of the whole block to
\* leftovers or the send of leftovers + buffer[:end_it] on outq.
ReaderRead ==
    /\ Running /\ rpc = "read"
    /\ pos # failAt
    /\ pos < Len(input)
    /\ \E length \in ReadLens : \E buffer \in {Buffer(length)} :
       \E end_it \in {ScanBack(buffer, length - 1)} :
         LET from == IF emitted = <<>> THEN 0 ELSE emitted[Len(emitted)].to + 1
         IN  /\ pos' = pos + length
             /\ shorts' = IF length < Min(bsize, Len(input) - pos)
                          THEN shorts - 1 ELSE shorts
             /\ IF end_it = 0
                THEN /\ leftovers' = leftovers \o buffer
                     /\ UNCHANGED <<chan1, emitted>>
                     /\ lastRead' = [block |-> SubSeq(buffer, 1, length), sent |-> 0,
                                     pending |-> lastRead.pending + 1]
                ELSE LET chunk == leftovers \o SubSeq(buffer, 1, end_it)
                     IN  /\ Len(chan1) < cfg.chansize
                         /\ chan1' = Append(chan1, chunk)
                         /\ emitted' = Append(emitted,
                                [bytes |-> chunk, from |-> from, to |-> pos + end_it,
                                 reads |-> lastRead.pending + 1])
                         /\ leftovers' = SubSeq(buffer, end_it + 2, bsize)
                         /\ lastRead' = [block |-> SubSeq(buffer, 1, length), sent |-> 1,
                                         pending |-> IF end_it + 1 < length THEN 1 ELSE 0]
    /\ UNCHANGED <<input, bsize, failAt, cfg, rpc, closed1>>
    /\ UNCHANGED <<parserVars, reducerVars, combinerVars, mainVars, events, crashed, failed>>

\* Read returns 0 bytes (end of stream): break, then close(self.outq).
ReaderClose ==
    /\ Running /\ rpc = "read"
    /\ pos # failAt
    /\ pos = Len(input)
    /\ rpc' = "closed"
    /\ closed1' = TRUE
    /\ events' = Append(events, "close1")
    /\ UNCHANGED <<input, bsize, shorts, failAt, cfg, pos, leftovers, emitted, lastRead, chan1>>
    /\ UNCHANGED <<parserVars, reducerVars, combinerVars, mainVars, crashed, failed>>

\* Mutant of ReaderFatal: the error is taken for the end of the stream and
\* the output queue is closed.
ReaderFatalAsEOF ==
    /\ Running /\ rpc = "read"
    /\ pos = failAt
    /\ rpc' = "closed"
    /\ closed1' = TRUE
    /\ events' = Append(events, "close1")
    /\ UNCHANGED <<input, bsize, shorts, failAt, cfg, pos, leftovers, emitted, lastRead, chan1>>
    /\ UNCHANGED <<parserVars, reducerVars, combinerVars, mainVars, crashed, failed>>

\* Read returns an error other than io.EOF: Error.Fatalln ends the process.
ReaderFatal ==
    /\ Running /\ rpc = "read"
    /\ pos = failAt
    /\ failed' = TRUE
    /\ UNCHANGED <<readerVars, parserVars, reducerVars, combinerVars, mainVars,
                   events, crashed>>

(***************************************************************************)
(* Parser                                                                  *)
(***************************************************************************)
\* strings.Split(s, sep) for a one byte separator: the fields between the
\* separators, Split("") = [""].
\* The position of the j-th of the n separators at the positions at; 0 and
\* n + 1 stand for the two ends of the string of length len.
Cut(at, j, len) ==
    IF j = 0 THEN 0
    ELSE IF j > Cardinality(at) THEN len + 1
    ELSE CHOOSE i \in at : Cardinality({k \in at : k < i}) = j - 1

Split(str, sep) ==
    CHOOSE fields \in UNION {
        { [j \in 1..(Cardinality(at) + 1) |->
              SubSeq(s, Cut(at, j - 1, Len(s)) + 1, Cut(at, j, Len(s)) - 1)]
          : at \in {{i \in 1..Len(s) : s[i] = sep}} }
        : s \in {str} } : TRUE

IsDigit(b) == b \in 48..57

RECURSIVE Digits(_, _)
Digits(s, acc) ==
    IF s = <<>> THEN acc ELSE Digits(Tail(s), acc * 10 + (Head(s) - 48))

\* strconv.Atoi with the error dropped: an optional sign, then one or more
\* decimal digits; anything else yields 0.  (Fields here are far too short
\* to leave the range of int.)
Atoi(s) ==
    LET signed == s # <<>> /\ Head(s) \in {43, 45}
        body   == IF signed THEN Tail(s) ELSE s
    IN  IF body = <<>> \/ \E i \in 1..Len(body) : ~IsDigit(body[i]) THEN 0
        ELSE IF signed /\ Head(s) = 45 THEN 0 - Digits(body, 0)
        ELSE Digits(body, 0)

\* The zero value of conn.
ZeroConn == [orig |-> <<>>, resp |-> <<>>, bytes |-> 0]

\* The index expressions of Parser.Parse that panic (index out of range):
\* line[0] on an empty line, data[2], data[4], data[16], data[18] on a line
\* with too few fields.
LinePanics(line) ==
    IF line = <<>> THEN TRUE
    ELSE /\ line[1] # HASH
         /\ \E f \in {OrigField, RespField, Bytes1Field, Bytes2Field} :
                Len(Split(line, TAB)) <= f

ParsePanics(fileslice) ==
    \E lines \in {Split(fileslice, NL)} :
        \E i \in 1..Len(lines) : \E line \in {lines[i]} : LinePanics(line)

\* Mutant of ParseLine: a comment line leaves a zero conn in the batch
\* instead of nothing.
ParseLineKeepsComment(line) ==
    IF line[1] = HASH THEN <<ZeroConn>>
    ELSE CHOOSE r \in
           { <<[orig  |-> data[OrigField + 1],
                resp  |-> data[RespField + 1],
                bytes |-> Atoi(data[Bytes1Field + 1]) + Atoi(data[Bytes2Field + 1])]>>
             : data \in {Split(line, TAB)} } : TRUE

\* The conn the loop body of Parser.Parse appends for one line (none for a
\* comment line).
ParseLine(line) ==
    IF line[1] = HASH THEN <<>>
    ELSE CHOOSE r \in
           { <<[orig  |-> data[OrigField + 1],
                resp  |-> data[RespField + 1],
                bytes |-> Atoi(data[Bytes1Field + 1]) + Atoi(data[Bytes2Field + 1])]>>
             : data \in {Split(line, TAB)} } : TRUE

\* The loop of Parser.Parse over lines[i..], entered with data_slice.
RECURSIVE ParseFrom(_, _, _)
ParseFrom(data_slice, lines, i) ==
    IF i > Len(lines) THEN data_slice
    ELSE CHOOSE r \in {ParseFrom(d, lines, i + 1) :
                         d \in {data_slice \o ParseLine(lines[i])}} : TRUE

\* data_slice as Parser.Parse sends it: make([]conn, len(lines)) holds
\* len(lines) zero conns, and the loop appends behind them.
Parse(fileslice) ==
    CHOOSE r \in {ParseFrom([i \in 1..Len(lines) |-> ZeroConn], lines, 1) :
                    lines \in {Split(fileslice, NL)}} : TRUE

(***************************************************************************)
(* Reducer                                                                 *)
(***************************************************************************)
HasPrefix(s, prefix) ==
    Len(s) >= Len(prefix) /\ SubSeq(s, 1, Len(prefix)) = prefix

\* The empty map.
EmptyMap == [k \in {} |-> 0]

\* m[k] += v on a Go map: a missing key counts as 0.
AddTo(m, k, v) ==
    IF k \in DOMAIN m THEN [m EXCEPT ![k] = @ + v]
    ELSE [j \in DOMAIN m \cup {k} |-> IF j = k THEN v ELSE m[j]]

\* Mutant of ReduceConn: the responder is looked at only when the origin did
\* not match (else if).
ReduceConnElse(tt, c) ==
    IF HasPrefix(c.orig, Prefix) THEN AddTo(tt, c.orig, c.bytes)
    ELSE IF HasPrefix(c.resp, Prefix) THEN AddTo(tt, c.resp, c.bytes)
    ELSE tt

\* The loop body of Reducer.Reduce for one conn.
ReduceConn(tt, c) ==
    LET t1 == IF HasPrefix(c.orig, Prefix) THEN AddTo(tt, c.orig, c.bytes) ELSE tt
    IN  IF HasPrefix(c.resp, Prefix) THEN AddTo(t1, c.resp, c.bytes) ELSE t1

\* The loop of Reducer.Reduce over data_slice[i..], entered with map tt.
RECURSIVE ReduceFrom(_, _, _)
ReduceFrom(tt, data_slice, i) ==
    IF i > Len(data_slice) THEN tt
    ELSE CHOOSE r \in {ReduceFrom(t, data_slice, i + 1) :
                         t \in {ReduceConn(tt, data_slice[i])}} : TRUE

\* tt as Reducer.Reduce sends it.
Reduce(data_slice) == ReduceFrom(EmptyMap, data_slice, 1)

(***************************************************************************)
(* Combiner                                                                *)
(***************************************************************************)
\* Mutant of Merge: final[ip] = bytecount instead of +=.
MergeAssign(fin, subresult) ==
    [k \in DOMAIN fin \cup DOMAIN subresult |->
        IF k \in DOMAIN subresult THEN subresult[k] ELSE fin[k]]

\* The inner loop of Combiner.Start: final[ip] += bytecount for every entry
\* of subresult.
Merge(fin, subresult) ==
    [k \in DOMAIN fin \cup DOMAIN subresult |->
        (IF k \in DOMAIN fin THEN fin[k] ELSE 0)
      + (IF k \in DOMAIN subresult THEN subresult[k] ELSE 0)]

\* The values of map m listed in some iteration order.
RECURSIVE ValuesIn(_, _)
ValuesIn(m, ks) ==
    IF ks = {} THEN <<>>
    ELSE CHOOSE r \in {<<m[k]>> \o ValuesIn(m, ks \ {k}) :
                         k \in {CHOOSE j \in ks : TRUE}} : TRUE

ValuesOf(m) == ValuesIn(m, DOMAIN m)

RECURSIVE Sum(_)
Sum(s) == IF s = <<>> THEN 0 ELSE Head(s) + Sum(Tail(s))

\* sort.Sort(sort.Reverse(sortable_keys)): the elements in descending order.
\* Place i holds the value v with fewer than i elements above it and at
\* least i elements not below it.
SortDesc(s) ==
    [i \in 1..Len(s) |->
        CHOOSE v \in {s[j] : j \in 1..Len(s)} :
            /\ Cardinality({j \in 1..Len(s) : s[j] > v}) < i
            /\ Cardinality({j \in 1..Len(s) : s[j] >= v}) >= i]

\* keys after the first loop of Report and the sort: make([]int64, len(tt))
\* holds len(tt) zeros, the loop appends every value behind them.
SortedKeys(tt) == SortDesc([i \in 1..Cardinality(DOMAIN tt) |-> 0] \o ValuesOf(tt))

\* The swapped maps the first loop of Report can build.  append(list, k) is
\* assigned to the local list only, so swapped[v] keeps the one key that the
\* map iteration met first with value v; the iteration order is unspecified.
RECURSIVE SwapsOver(_, _)
SwapsOver(tt, vals) ==
    IF vals = {} THEN {EmptyMap}
    ELSE UNION { {sw @@ (v :> k) : sw \in SwapsOver(tt, vals \ {v}),
                                   k \in {j \in DOMAIN tt : tt[j] = v}}
                 : v \in {CHOOSE x \in vals : TRUE} }

Swaps(tt) == SwapsOver(tt, {tt[k] : k \in DOMAIN tt})

\* The lines the second loop of Report prints for one swapped map: for each
\* element k of keys the ips of swapped[k] (none when k is no key of
\* swapped), until TopN lines are out.
RECURSIVE PrintLoop(_, _, _, _, _)
PrintLoop(keys, sw, tbytes, i, out) ==
    IF i > Len(keys) THEN out
    ELSE IF keys[i] \notin DOMAIN sw THEN PrintLoop(keys, sw, tbytes, i + 1, out)
    ELSE IF Len(out) < TopN
    THEN CHOOSE r \in
           { PrintLoop(keys, sw, tbytes, i + 1, o) :
               o \in {Append(out, [ip |-> sw[keys[i]], bytes |-> keys[i],
                                   tbytes |-> tbytes])} } : TRUE
    ELSE out

\* Everything Combiner.Report may print for tt.
ReportOutputs(tt) ==
    UNION { {PrintLoop(keys, sw, tbytes, 1, <<>>) : sw \in Swaps(tt)}
            : keys \in {SortedKeys(tt)}, tbytes \in {Sum(ValuesOf(tt))} }

(***************************************************************************)
(* Parser.Start and the Parse tasks                                        *)
(***************************************************************************)
BagAdd(b, e) == b (+) SetToBag({e})
BagRemove(b, e) == b (-) SetToBag({e})

\* for fileslice := range self.inq: a chunk is received.
ParserRecv ==
    /\ Running /\ ppc = "recv"
    /\ chan1 # <<>>
    /\ pheld' = <<Head(chan1)>>
    /\ chan1' = Tail(chan1)
    /\ ppc' = "acquire"
    /\ UNCHANGED <<input, bsize, shorts, failAt, cfg, rpc, pos, leftovers, emitted, lastRead,
                   closed1>>
    /\ UNCHANGED <<limiter1, parsing, psent, chan2, closed2>>
    /\ UNCHANGED <<reducerVars, combinerVars, mainVars, events, crashed, failed>>

\* Mutant of ParserAcquire: the task is spawned without waiting for a free
\* slot of the limiter.
ParserAcquireNoLimit ==
    /\ Running /\ ppc = "acquire"
    /\ limiter1' = limiter1 + 1
    /\ parsing' = BagAdd(parsing, pheld[1])
    /\ pheld' = <<>>
    /\ ppc' = "recv"
    /\ UNCHANGED <<psent, chan2, closed2>>
    /\ UNCHANGED <<readerVars, reducerVars, combinerVars, mainVars, events, crashed, failed>>

\* self.limiter <- 1; go self.Parse(fileslice)
ParserAcquire ==
    /\ Running /\ ppc = "acquire"
    /\ limiter1 < cfg.ParserPool
    /\ limiter1' = limiter1 + 1
    /\ parsing' = BagAdd(parsing, pheld[1])
    /\ pheld' = <<>>
    /\ ppc' = "recv"
    /\ UNCHANGED <<psent, chan2, closed2>>
    /\ UNCHANGED <<readerVars, reducerVars, combinerVars, mainVars, events, crashed, failed>>

\* The range loop ends: inq is closed and empty.
ParserDrained ==
    /\ Running /\ ppc = "recv"
    /\ chan1 = <<>> /\ closed1
    /\ ppc' = "poll"
    /\ UNCHANGED <<pheld, limiter1, parsing, psent, chan2, closed2>>
    /\ UNCHANGED <<readerVars, reducerVars, combinerVars, mainVars, events, crashed, failed>>

\* Mutant of ParserClose: the output queue is closed as soon as the input is
\* drained, without waiting for the limiter to empty.
ParserCloseUnchecked ==
    /\ Running /\ ppc = "poll"
    /\ closed2' = TRUE
    /\ ppc' = "done"
    /\ events' = Append(events, "close2")
    /\ UNCHANGED <<pheld, limiter1, parsing, psent, chan2>>
    /\ UNCHANGED <<readerVars, reducerVars, combinerVars, mainVars, crashed, failed>>

\* if len(self.limiter) == 0 { close(self.outq); break }  (the else branch
\* sleeps and changes nothing)
ParserClose ==
    /\ Running /\ ppc = "poll"
    /\ limiter1 = 0
    /\ closed2' = TRUE
    /\ ppc' = "done"
    /\ events' = Append(events, "close2")
    /\ UNCHANGED <<pheld, limiter1, parsing, psent, chan2>>
    /\ UNCHANGED <<readerVars, reducerVars, combinerVars, mainVars, crashed, failed>>

\* A Parse task hits an index out of range: the unrecovered panic ends the
\* process.
ParsePanic ==
    /\ Running
    /\ \E fileslice \in BagToSet(parsing) : ParsePanics(fileslice)
    /\ crashed' = "index out of range"
    /\ UNCHANGED <<readerVars, parserVars, reducerVars, combinerVars, mainVars,
                   events, failed>>

\* A Parse task runs to self.outq <- data_slice.  A send on a closed channel
\* panics.
ParseSend ==
    /\ Running
    /\ \E fileslice \in BagToSet(parsing) :
         /\ ~ParsePanics(fileslice)
         /\ IF closed2
            THEN /\ crashed' = "send on closed channel"
                 /\ UNCHANGED <<parsing, psent, chan2>>
            ELSE /\ Len(chan2) < cfg.chansize
                 /\ chan2' = Append(chan2, Parse(fileslice))
                 /\ parsing' = BagRemove(parsing, fileslice)
                 /\ psent' = psent + 1
                 /\ UNCHANGED crashed
    /\ UNCHANGED <<ppc, pheld, limiter1, closed2>>
    /\ UNCHANGED <<readerVars, reducerVars, combinerVars, mainVars, events, failed>>

\* Mutant of ParseRelease: the task ends without taking its token back out
\* of the limiter.
ParseReleaseForgotten ==
    /\ Running
    /\ psent > 0
    /\ psent' = psent - 1
    /\ UNCHANGED <<ppc, pheld, limiter1, parsing, chan2, closed2>>
    /\ UNCHANGED <<readerVars, reducerVars, combinerVars, mainVars, events, crashed, failed>>

\* Mutant of ParseRelease: a task takes its token out of the limiter before
\* it has sent its batch.
ParseReleaseEarly ==
    /\ Running
    /\ BagCardinality(parsing) + psent > 0 /\ limiter1 > 0
    /\ psent' = IF psent > 0 THEN psent - 1 ELSE psent
    /\ limiter1' = limiter1 - 1
    /\ UNCHANGED <<ppc, pheld, parsing, chan2, closed2>>
    /\ UNCHANGED <<readerVars, reducerVars, combinerVars, mainVars, events, crashed, failed>>

\* <-self.limiter at the end of Parse
ParseRelease ==
    /\ Running
    /\ psent > 0
    /\ psent' = psent - 1
    /\ limiter1' = limiter1 - 1
    /\ UNCHANGED <<ppc, pheld, parsing, chan2, closed2>>
    /\ UNCHANGED <<readerVars, reducerVars, combinerVars, mainVars, events, crashed, failed>>

(***************************************************************************)
(* Reducer.Start and the Reduce tasks                                      *)
(***************************************************************************)
\* for data_slice := range self.inq: a batch is received.
ReducerRecv ==
    /\ Running /\ rdpc = "recv"
    /\ chan2 # <<>>
    /\ rdheld' = <<Head(chan2)>>
    /\ chan2' = Tail(chan2)
    /\ rdpc' = "acquire"
    /\ UNCHANGED <<ppc, pheld, limiter1, parsing, psent, closed2>>
    /\ UNCHANGED <<limiter2, reducing, rdsent, chan3, closed3>>
    /\ UNCHANGED <<readerVars, combinerVars, mainVars, events, crashed, failed>>

\* self.limiter <- 1; go self.Reduce(data_slice)
ReducerAcquire ==
    /\ Running /\ rdpc = "acquire"
    /\ limiter2 < cfg.ReducerPool
    /\ limiter2' = limiter2 + 1
    /\ reducing' = BagAdd(reducing, rdheld[1])
    /\ rdheld' = <<>>
    /\ rdpc' = "recv"
    /\ UNCHANGED <<rdsent, chan3, closed3>>
    /\ UNCHANGED <<readerVars, parserVars, combinerVars, mainVars, events, crashed, failed>>

\* The range loop ends: inq is closed and empty.
ReducerDrained ==
    /\ Running /\ rdpc = "recv"
    /\ chan2 = <<>> /\ closed2
    /\ rdpc' = "poll"
    /\ UNCHANGED <<rdheld, limiter2, reducing, rdsent, chan3, closed3>>
    /\ UNCHANGED <<readerVars, parserVars, combinerVars, mainVars, events, crashed, failed>>

\* if len(self.limiter) == 0 { close(self.outq); break }
ReducerClose ==
    /\ Running /\ rdpc = "poll"
    /\ limiter2 = 0
    /\ closed3' = TRUE
    /\ rdpc' = "done"
    /\ events' = Append(events, "close3")
    /\ UNCHANGED <<rdheld, limiter2, reducing, rdsent, chan3>>
    /\ UNCHANGED <<readerVars, parserVars, combinerVars, mainVars, crashed, failed>>

\* A Reduce task runs to self.outq <- tt.
ReduceSend ==
    /\ Running
    /\ \E data_slice \in BagToSet(reducing) :
         IF closed3
         THEN /\ crashed' = "send on closed channel"
              /\ UNCHANGED <<reducing, rdsent, chan3>>
         ELSE /\ Len(chan3) < cfg.chansize
              /\ chan3' = Append(chan3, Reduce(data_slice))
              /\ reducing' = BagRemove(reducing, data_slice)
              /\ rdsent' = rdsent + 1
              /\ UNCHANGED crashed
    /\ UNCHANGED <<rdpc, rdheld, limiter2, closed3>>
    /\ UNCHANGED <<readerVars, parserVars, combinerVars, mainVars, events, failed>>

\* <-self.limiter at the end of Reduce
ReduceRelease ==
    /\ Running
    /\ rdsent > 0
    /\ rdsent' = rdsent - 1
    /\ limiter2' = limiter2 - 1
    /\ UNCHANGED <<rdpc, rdheld, reducing, chan3, closed3>>
    /\ UNCHANGED <<readerVars, parserVars, combinerVars, mainVars, events, crashed, failed>>

(***************************************************************************)
(* Combiner.Start                                                          *)
(***************************************************************************)
\* for subresult := range self.inq, with the inner loop that adds subresult
\* into final.
CombinerRecv ==
    /\ Running /\ cpc = "recv"
    /\ chan3 # <<>>
    /\ final' = Merge(final, Head(chan3))
    /\ csub' = Cardinality(DOMAIN Head(chan3))
    /\ merged' = BagAdd(merged, Head(chan3))
    /\ chan3' = Tail(chan3)
    /\ cpc' = "send"
    /\ UNCHANGED <<rdpc, rdheld, limiter2, reducing, rdsent, closed3>>
    /\ UNCHANGED <<printed, chan4, closed4>>
    /\ UNCHANGED <<readerVars, parserVars, mainVars, events, crashed, failed>>

\* self.outq <- len(subresult)
CombinerSend ==
    /\ Running /\ cpc = "send"
    /\ Len(chan4) < cfg.chansize
    /\ chan4' = Append(chan4, csub)
    /\ cpc' = "recv"
    /\ UNCHANGED <<final, csub, merged, printed, closed4>>
    /\ UNCHANGED <<readerVars, parserVars, reducerVars, mainVars, events, crashed, failed>>

\* Mutant of CombinerReport: the report is printed as soon as the input queue
\* is found empty, closed or not.
CombinerReportEarly ==
    /\ Running /\ cpc = "recv"
    /\ chan3 = <<>>
    /\ \E out \in ReportOutputs(final) : printed' = Append(printed, out)
    /\ events' = Append(events, "report")
    /\ cpc' = "close"
    /\ UNCHANGED <<final, csub, merged, chan4, closed4>>
    /\ UNCHANGED <<readerVars, parserVars, reducerVars, mainVars, crashed, failed>>

\* Mutant of CombinerReport: the percentages are computed in integers, and
\* the division by a total of 0 panics.
CombinerReportDivides ==
    /\ Running /\ cpc = "recv"
    /\ chan3 = <<>> /\ closed3
    /\ IF Sum(ValuesOf(final)) = 0
       THEN /\ crashed' = "integer divide by zero"
            /\ UNCHANGED <<printed, events, cpc>>
       ELSE /\ \E out \in ReportOutputs(final) : printed' = Append(printed, out)
            /\ events' = Append(events, "report")
            /\ cpc' = "close"
            /\ UNCHANGED crashed
    /\ UNCHANGED <<final, csub, merged, chan4, closed4>>
    /\ UNCHANGED <<readerVars, parserVars, reducerVars, mainVars, failed>>

\* The range loop ends (inq closed and empty): self.Report(final)
CombinerReport ==
    /\ Running /\ cpc = "recv"
    /\ chan3 = <<>> /\ closed3
    /\ \E out \in ReportOutputs(final) : printed' = Append(printed, out)
    /\ events' = Append(events, "report")
    /\ cpc' = "close"
    /\ UNCHANGED <<final, csub, merged, chan4, closed4>>
    /\ UNCHANGED <<readerVars, parserVars, reducerVars, mainVars, crashed, failed>>

\* close(self.outq)
CombinerClose ==
    /\ Running /\ cpc = "close"
    /\ closed4' = TRUE
    /\ cpc' = "done"
    /\ events' = Append(events, "close4")
    /\ UNCHANGED <<final, csub, merged, printed, chan4>>
    /\ UNCHANGED <<readerVars, parserVars, reducerVars, mainVars, crashed, failed>>

(***************************************************************************)
(* main                                                                    *)
(***************************************************************************)
\* for my_done := range chan4 { total_done += my_done; ...; sampler += 1 }
MainRecv ==
    /\ Running
    /\ chan4 # <<>>
    /\ total_done' = total_done + Head(chan4)
    /\ sampler' = sampler + 1
    /\ chan4' = Tail(chan4)
    /\ UNCHANGED <<cpc, final, csub, merged, printed, closed4>>
    /\ UNCHANGED mpc
    /\ UNCHANGED <<readerVars, parserVars, reducerVars, events, crashed, failed>>

\* The range loop ends (chan4 closed and empty) and main returns: the
\* process exits.
MainReturn ==
    /\ Running
    /\ chan4 = <<>> /\ closed4
    /\ mpc' = "returned"
    /\ events' = Append(events, "return")
    /\ UNCHANGED <<total_done, sampler>>
    /\ UNCHANGED <<readerVars, parserVars, reducerVars, combinerVars, crashed, failed>>

(***************************************************************************)
(* Inputs                                                                  *)
(***************************************************************************)
RECURSIVE Join(_, _)
Join(fields, sep) ==
    IF Len(fields) = 1 THEN fields[1]
    ELSE fields[1] \o <<sep>> \o Join(Tail(fields), sep)

\* A log line of Bytes2Field + 1 tab separated fields, empty but for the
\* four the Parser reads.
LogLine(orig, resp, b1, b2) ==
    Join([i \in 1..(Bytes2Field + 1) |->
            CASE i = OrigField + 1 -> orig
              [] i = RespField + 1 -> resp
              [] i = Bytes1Field + 1 -> b1
              [] i = Bytes2Field + 1 -> b2
              [] OTHER -> <<>>], TAB)

IpA == Prefix \o <<49>>     \* "128.252.1"
IpB == Prefix \o <<50>>     \* "128.252.2"
IpX == <<57>>               \* "9", outside the prefix

LineA == LogLine(IpA, IpX, <<49>>, <<50>>)      \* 128.252.1 -> 9, 1 + 2 bytes
LineB == LogLine(IpB, IpA, <<53>>, <<>>)        \* 128.252.2 -> 128.252.1, 5 + "" bytes
LineComment == <<HASH, 99>>                     \* "#c"
LineShort == <<120, TAB, 121>>                  \* "x\ty": too few fields
LineEmpty == <<>>

WellFormedLines == {LineA, LineB, LineComment}
LineSet == WellFormedLines \cup {LineShort, LineEmpty}

RECURSIVE Flatten(_)
Flatten(lines) ==
    IF lines = <<>> THEN <<>> ELSE Head(lines) \o <<NL>> \o Flatten(Tail(lines))

\* Files of up to n lines of the set, every line terminated.
Docs(lineset, n) ==
    {Flatten(ls) : ls \in UNION {[1..k -> lineset] : k \in 0..n}}

\* All byte strings of up to n bytes over the alphabet.
Strings(alphabet, n) == UNION {[1..k -> alphabet] : k \in 0..n}

\* The capacities main gives the channels and the limiters.
ProgramConfig ==
    [chansize |-> chansize, ParserPool |-> ParserPool, ReducerPool |-> ReducerPool]

\* The program's capacities, and the smallest ones.
Configs == {ProgramConfig, [chansize |-> 1, ParserPool |-> 1, ReducerPool |-> 1]}

\* The state main builds before it starts the goroutines.
InitPipeline ==
    /\ rpc = "read" /\ pos = 0 /\ leftovers = <<>> /\ emitted = <<>>
    /\ lastRead = [block |-> <<>>, sent |-> 0, pending |-> 0]
    /\ chan1 = <<>> /\ closed1 = FALSE
    /\ ppc = "recv" /\ pheld = <<>> /\ limiter1 = 0
    /\ parsing = EmptyBag /\ psent = 0
    /\ chan2 = <<>> /\ closed2 = FALSE
    /\ rdpc = "recv" /\ rdheld = <<>> /\ limiter2 = 0
    /\ reducing = EmptyBag /\ rdsent = 0
    /\ chan3 = <<>> /\ closed3 = FALSE
    /\ cpc = "recv" /\ final = EmptyMap /\ csub = 0 /\ merged = EmptyBag
    /\ printed = <<>>
    /\ chan4 = <<>> /\ closed4 = FALSE
    /\ mpc = "loop" /\ total_done = 0 /\ sampler = 0
    /\ events = <<>> /\ crashed = "" /\ failed = FALSE

\* A regular file of up to MaxLines lines, read with or without an error
\* behind its last byte.
InitFile ==
    /\ input \in Docs(LineSet, MaxLines)
    /\ bsize \in {BsizeSmall, BsizeLarge}
    /\ shorts = 0
    /\ failAt \in {-1, Len(input)}
    /\ cfg \in Configs
    /\ InitPipeline

\* Two log lines through the unzipper's pipe, which delivers one short read.
InitPipe ==
    /\ input \in {Flatten(<<a, b>>) : a, b \in {LineA, LineB}}
    /\ bsize = BsizeLarge
    /\ shorts = 1
    /\ failAt = -1
    /\ cfg = ProgramConfig
    /\ InitPipeline

\* A file of ParserPool + 2 one-line blocks, under the program's capacities
\* and under the smallest ones.
InitPool ==
    /\ input = Flatten([i \in 1..(ParserPool + 2) |-> LineComment])
    /\ bsize = Len(LineComment) + 1
    /\ shorts = 0
    /\ failAt = -1
    /\ cfg \in Configs
    /\ InitPipeline

\* A commented-out log line followed by a log line, under the program's
\* capacities; with the larger block both lines are in one chunk.
CommentedLine == <<HASH>> \o LineA

InitComment ==
    /\ input = Flatten(<<CommentedLine, LineB>>)
    /\ bsize \in {BsizeSmall, BsizeLarge}
    /\ shorts = 0
    /\ failAt = -1
    /\ cfg = ProgramConfig
    /\ InitPipeline

Init == InitFile \/ InitPipe \/ InitPool \/ InitComment

Next ==
    \/ ReaderRead \/ ReaderClose \/ ReaderFatal
    \/ ParserRecv \/ ParserAcquire \/ ParserDrained \/ ParserClose
    \/ ParsePanic \/ ParseSend \/ ParseRelease
    \/ ReducerRecv \/ ReducerAcquire \/ ReducerDrained \/ ReducerClose
    \/ ReduceSend \/ ReduceRelease
    \/ CombinerRecv \/ CombinerSend \/ CombinerReport \/ CombinerClose
    \/ MainRecv \/ MainReturn

Spec == Init /\ [][Next]_vars

\* The Go scheduler runs every goroutine that can take a step: each step is
\* weakly fair.
Fairness ==
    /\ WF_vars(ReaderRead) /\ WF_vars(ReaderClose) /\ WF_vars(ReaderFatal)
    /\ WF_vars(ParserRecv) /\ WF_vars(ParserAcquire) /\ WF_vars(ParserDrained)
    /\ WF_vars(ParserClose) /\ WF_vars(ParsePanic) /\ WF_vars(ParseSend)
    /\ WF_vars(ParseRelease)
    /\ WF_vars(ReducerRecv) /\ WF_vars(ReducerAcquire) /\ WF_vars(ReducerDrained)
    /\ WF_vars(ReducerClose) /\ WF_vars(ReduceSend) /\ WF_vars(ReduceRelease)
    /\ WF_vars(CombinerRecv) /\ WF_vars(CombinerSend) /\ WF_vars(CombinerReport)
    /\ WF_vars(CombinerClose)
    /\ WF_vars(MainRecv) /\ WF_vars(MainReturn)

\* Files of up to two lines, as in InitFile.
InitFair ==
    /\ input \in Docs(LineSet, 2)
    /\ bsize \in {BsizeSmall, BsizeLarge}
    /\ shorts = 0
    /\ failAt \in {-1, Len(input)}
    /\ cfg \in Configs
    /\ InitPipeline

FairSpec == InitFair /\ [][Next]_vars /\ Fairness

\* The Reader alone, on every short input over a small alphabet, with every
\* block size and every sequence of read lengths.
ReaderInit ==
    /\ input \in Strings({NL, 97, 98}, MaxInputLen)
    /\ bsize \in 1..MaxBsize
    /\ shorts \in {0, MaxInputLen}
    /\ failAt = -1
    /\ cfg = ProgramConfig
    /\ InitPipeline

ReaderNext == ReaderRead \/ ReaderClose

ReaderSpec == ReaderInit /\ [][ReaderNext]_vars

\* The i-th address inside the prefix: "128.252.1", "128.252.2", ...
Key(i) == Prefix \o <<48 + i>>

\* The decimal digits of v < 100.
Dec(v) == IF v < 10 THEN <<48 + v>> ELSE <<48 + (v \div 10), 48 + (v % 10)>>

\* A file with one log line per key: Key(i) -> 9 with f[i] bytes.
TallyFile(f) ==
    Flatten([i \in 1..Len(f) |-> LogLine(Key(i), IpX, Dec(f[i]), <<>>)])

\* Files whose tally has up to SmallKeys keys with every choice of totals in
\* 0..MaxVal (zero and equal totals included), and files whose tally has up
\* to MaxKeys keys with the distinct totals 1, 2, ...
ReportFiles ==
    {TallyFile(f) : f \in UNION {[1..n -> 0..MaxVal] : n \in 0..SmallKeys}}
      \cup {TallyFile([i \in 1..n |-> i]) : n \in 0..MaxKeys}

\* Such a file, read in one block.
ReportInit ==
    /\ input \in ReportFiles
    /\ bsize = BsizeWhole
    /\ shorts = 0
    /\ failAt = -1
    /\ cfg = ProgramConfig
    /\ InitPipeline

ReportNext ==
    \/ ReaderRead \/ ReaderClose
    \/ ParserRecv \/ ParserAcquire \/ ParserDrained \/ ParserClose
    \/ ParseSend \/ ParseRelease
    \/ ReducerRecv \/ ReducerAcquire \/ ReducerDrained \/ ReducerClose
    \/ ReduceSend \/ ReduceRelease
    \/ CombinerRecv \/ CombinerSend \/ CombinerReport \/ CombinerClose
    \/ MainRecv \/ MainReturn

ReportSpec == ReportInit /\ [][ReportNext]_vars

(***************************************************************************)
(* Properties                                                              *)
(***************************************************************************)
Range(s) == {s[i] : i \in DOMAIN s}

Reported == "report" \in Range(events)

\* The partial tally of the i-th chunk the Reader sent.
TallyOf(i) == Reduce(Parse(emitted[i].bytes))

\* The lines of a file: the pieces between the terminators, and the piece
\* behind the last one unless it is empty.
InputLines(in) ==
    LET f == Split(in, NL)
    IN  IF f[Len(f)] = <<>> THEN SubSeq(f, 1, Len(f) - 1) ELSE f

ParseTasks == BagCardinality(parsing) + psent
ReduceTasks == BagCardinality(reducing) + rdsent

\* C1: whenever a stage's output queue is closed, its input queue is closed
\* and drained, Start holds no chunk, and every task the stage spawned has
\* sent its result and released its slot; no task ever sends on a closed
\* queue.
CloseOnlyAfterTasks ==
    /\ closed2 => /\ closed1 /\ chan1 = <<>> /\ pheld = <<>>
                  /\ ParseTasks = 0 /\ limiter1 = 0
    /\ closed3 => /\ closed2 /\ chan2 = <<>> /\ rdheld = <<>>
                  /\ ReduceTasks = 0 /\ limiter2 = 0
    /\ crashed # "send on closed channel"

\* Both stages have closed their output after at least two tasks each.
CloseOnlyAfterTasksWitness ==
    /\ closed2 /\ closed3
    /\ Len(emitted) >= 2
    /\ BagCardinality(merged) + Len(chan3) = Len(emitted)

\* C2: once Report has been called, final holds for every key the sum of
\* that key's values over the partial tallies of all emitted chunks, and the
\* tallies merged are exactly those, each once.
FinalIsSumOfTallies ==
    Reported =>
        LET n == Len(emitted)
        IN  /\ DOMAIN final = UNION {DOMAIN TallyOf(i) : i \in 1..n}
            /\ \A k \in DOMAIN final :
                 final[k] = Sum([i \in 1..n |->
                                   IF k \in DOMAIN TallyOf(i) THEN TallyOf(i)[k] ELSE 0])
            /\ BagCardinality(merged) = n
            /\ \A t \in BagToSet(merged) :
                 CopiesIn(t, merged) = Cardinality({i \in 1..n : TallyOf(i) = t})

\* The report was made from two or more chunks that share a key.
FinalIsSumOfTalliesWitness ==
    /\ Reported
    /\ \E i, j \in 1..Len(emitted) :
         /\ i # j
         /\ \E k \in DOMAIN TallyOf(i) \cap DOMAIN TallyOf(j) :
              TallyOf(i)[k] > 0 /\ TallyOf(j)[k] > 0

\* No read error and no line that Parse cannot index.
CleanInput ==
    /\ failAt = -1
    /\ \A i \in 1..Len(InputLines(input)) : ~LinePanics(InputLines(input)[i])

AllDone ==
    /\ closed1 /\ closed2 /\ closed3 /\ closed4
    /\ Len(printed) = 1
    /\ mpc = "returned"

TasksWithinPool ==
    /\ ParseTasks = limiter1 /\ limiter1 <= cfg.ParserPool
    /\ ReduceTasks = limiter2 /\ limiter2 <= cfg.ReducerPool
    /\ cfg = ProgramConfig => ParseTasks <= ParserPool /\ ReduceTasks <= ReducerPool

\* Under the program's capacities ParserPool Parse tasks are outstanding and
\* Parser.Start waits for a slot with one more chunk in hand.
TasksWithinPoolWitness ==
    /\ cfg = ProgramConfig
    /\ ParseTasks = ParserPool
    /\ ppc = "acquire"

\* The chunks Reader.Start sends when every Read fills its block.
RECURSIVE FullReadChunks(_, _)
FullReadChunks(p, left) ==
    IF p >= Len(input) THEN <<>>
    ELSE LET length == Min(bsize, Len(input) - p)
             buffer == SubSeq(input, p + 1, p + length) \o Zeros(bsize - length)
             end_it == ScanBack(buffer, length - 1)
         IN  IF end_it = 0 THEN FullReadChunks(p + length, left \o buffer)
             ELSE <<left \o SubSeq(buffer, 1, end_it)>>
                    \o FullReadChunks(p + length, SubSeq(buffer, end_it + 2, bsize))

RECURSIVE TallyOfChunks(_)
TallyOfChunks(chunks) ==
    IF chunks = <<>> THEN EmptyMap
    ELSE Merge(Reduce(Parse(Head(chunks))), TallyOfChunks(Tail(chunks)))

\* C5: the tally handed to Report depends on the input and the configuration
\* only: it is the tally of the run in which every Read fills its block.
SameTallyEveryRun ==
    (Reported /\ CleanInput) => final = TallyOfChunks(FullReadChunks(0, <<>>))

EventOrder == <<"close1", "close2", "close3", "report", "close4", "return">>

\* C6: the closes, the report and main's return happen in the order of
\* EventOrder, each at most once; main has not returned unless the report
\* was printed, and the report is printed only after every partial tally was
\* merged.
EventsInOrder ==
    /\ Len(events) <= Len(EventOrder)
    /\ events = SubSeq(EventOrder, 1, Len(events))
    /\ Len(printed) = (IF Reported THEN 1 ELSE 0)
    /\ mpc = "returned" => Reported
    /\ Reported => /\ BagCardinality(merged) = Len(emitted)
                   /\ chan3 = <<>> /\ ReduceTasks = 0 /\ ParseTasks = 0

\* A run over two or more chunks went through all six events.
EventsInOrderWitness ==
    /\ events = EventOrder
    /\ Len(emitted) >= 2

\* The bytes behind the last newline of the file (all of it if there is none).
RECURSIVE AfterLastNL(_)
AfterLastNL(in) ==
    IF in = <<>> \/ in[Len(in)] = NL THEN <<>>
    ELSE Append(AfterLastNL(SubSeq(in, 1, Len(in) - 1)), in[Len(in)])

\* The newline-terminated lines of the file.
TerminatedLines(in) == SubSeq(Split(in, NL), 1, Len(Split(in, NL)) - 1)

ChunkLines(i) == Split(emitted[i].bytes, NL)

NLCount(s) == Cardinality({i \in 1..Len(s) : s[i] = NL})

\* The file has no empty line.
NoEmptyLine ==
    \A n \in 1..Len(TerminatedLines(input)) : TerminatedLines(input)[n] # <<>>

\* C7: when Reader.Start has closed its output queue and the file ends in a
\* partial line, that line is the last line of the last chunk sent.
FinalPartialLineEmitted ==
    (rpc = "closed" /\ AfterLastNL(input) # <<>>) =>
        /\ emitted # <<>>
        /\ ChunkLines(Len(emitted))[Len(ChunkLines(Len(emitted)))] = AfterLastNL(input)

\* C8: when Reader.Start has closed its output queue, every
\* newline-terminated line of the file is a line of some chunk sent (stated
\* for the files without empty line).
TerminatedLinesEmitted ==
    (rpc = "closed" /\ NoEmptyLine) =>
        \A n \in 1..Len(TerminatedLines(input)) :
            \E i \in 1..Len(emitted) :
                TerminatedLines(input)[n] \in Range(ChunkLines(i))

\* C9: a chunk put together from the bytes of two or more reads holds
\* exactly the bytes of the file between the previous chunk's terminator and
\* its own (stated for the files without empty line).
SplitLinesIntact ==
    \A i \in 1..Len(emitted) :
        (NoEmptyLine /\ emitted[i].reads >= 2) =>
            emitted[i].bytes = SubSeq(input, emitted[i].from + 1, emitted[i].to)

\* C10 as stated: every chunk sent holds exactly one line of the file, so no
\* chunk holds a line terminator (stated for the files without empty line).
OneLinePerChunk ==
    NoEmptyLine => \A i \in 1..Len(emitted) : NLCount(emitted[i].bytes) = 0

\* C10 as amended: a block with k >= 2 line terminators makes Reader.Start
\* send exactly one chunk; the chunk ends with the bytes of the block before
\* the block's last terminator and so holds the block's other k - 1
\* terminators, the lines between them in file order.
ManyTerminatorsOneChunk ==
    LET block == lastRead.block
        k     == NLCount(block)
        last  == CHOOSE i \in 1..Len(block) :
                     block[i] = NL /\ \A j \in (i + 1)..Len(block) : block[j] # NL
        chunk == emitted[Len(emitted)].bytes
    IN  k >= 2 =>
          /\ lastRead.sent = 1
          /\ Len(chunk) >= last - 1
          /\ SubSeq(chunk, Len(chunk) - (last - 1) + 1, Len(chunk)) = SubSeq(block, 1, last - 1)
          /\ NLCount(chunk) >= k - 1
          /\ emitted[Len(emitted)].to = pos - Len(block) + last - 1

\* A block of two non-empty lines has just been read and answered with one
\* chunk that holds both.
ManyTerminatorsOneChunkWitness ==
    /\ NoEmptyLine
    /\ NLCount(lastRead.block) >= 2
    /\ lastRead.sent = 1
    /\ NLCount(emitted[Len(emitted)].bytes) >= 1

\* The lines of a chunk as Parser.Parse sees them.
LinesOf(chunk) == Split(chunk, NL)

\* A line is skipped when its first character is '#'.
IsComment(line) == line # <<>> /\ line[1] = HASH

\* A malformed line: empty, or not a comment and with fewer than
\* Bytes2Field + 1 tab separated fields.
Malformed(line) ==
    \/ line = <<>>
    \/ ~IsComment(line) /\ Len(Split(line, TAB)) < Bytes2Field + 1

HasMalformedLine(chunk) ==
    \E n \in 1..Len(LinesOf(chunk)) : Malformed(LinesOf(chunk)[n])

\* C11: a chunk with a malformed line (empty, or with too few fields) does
\* not end the process: no Parse task dies of an index out of range.
MalformedLineSkipped ==
    (\E i \in 1..Len(emitted) : HasMalformedLine(emitted[i].bytes))
        => crashed # "index out of range"

\* The number of lines of a chunk that are not comment lines.
NonSkipped(chunk) ==
    Cardinality({n \in 1..Len(LinesOf(chunk)) : ~IsComment(LinesOf(chunk)[n])})

\* C12: every batch on chan2 holds as many records as some chunk sent has
\* lines that are not skipped, and when Parser.Start has closed chan2 with
\* every batch still queued, the batches together hold one record per
\* non-skipped line of the chunks.
OneRecordPerLine ==
    /\ \A j \in 1..Len(chan2) :
         \E i \in 1..Len(emitted) : Len(chan2[j]) = NonSkipped(emitted[i].bytes)
    /\ (closed2 /\ Len(chan2) = Len(emitted)) =>
         Sum([j \in 1..Len(chan2) |-> Len(chan2[j])])
           = Sum([i \in 1..Len(emitted) |-> NonSkipped(emitted[i].bytes)])

\* The addresses of a batch that match the prefix filter.
BatchKeys(b) ==
    {b[i].orig : i \in {n \in 1..Len(b) : HasPrefix(b[n].orig, Prefix)}}
      \cup {b[i].resp : i \in {n \in 1..Len(b) : HasPrefix(b[n].resp, Prefix)}}

\* For every matching address the bytes of the records it is the origin of
\* plus the bytes of the records it is the responder of.
BatchTally(b) ==
    [k \in BatchKeys(b) |->
        Sum([i \in 1..Len(b) |-> (IF b[i].orig = k THEN b[i].bytes ELSE 0)
                               + (IF b[i].resp = k THEN b[i].bytes ELSE 0)])]

\* C13: the partial tally a Reduce task sends for its batch has exactly the
\* batch's addresses that match the prefix as keys, and for each key the sum
\* of the bytes of the records with that origin plus the bytes of the records
\* with that responder.
ReduceTalliesBatch ==
    [][\A b \in BagToSet(reducing) :
          (reducing' = BagRemove(reducing, b) /\ Len(chan3') = Len(chan3) + 1)
              => chan3'[Len(chan3')] = BatchTally(b)]_vars

\* A tally on chan3 has two keys that are the origin and the responder of
\* one record, each with that record's bytes.
ReduceTalliesBatchWitness ==
    \E j \in 1..Len(chan3) : \E k1, k2 \in DOMAIN chan3[j] :
        /\ k1 # k2
        /\ chan3[j][k1] = chan3[j][k2] /\ chan3[j][k1] > 0
        /\ \E i \in 1..Len(emitted) : \E c \in Range(Parse(emitted[i].bytes)) :
             c.orig = k1 /\ c.resp = k2 /\ c.bytes = chan3[j][k1]

\* C14: Report prints exactly min(k, TopN) lines for a tally of k keys.
ReportPrintsMinKTen ==
    Reported => Len(printed[1]) = Min(Cardinality(DOMAIN final), TopN)

\* C15: the lines Report prints name distinct keys of the tally, each with
\* its own total, in non-increasing order of total, and no key left out has a
\* total above that of a printed one.
ReportIsTopN ==
    Reported =>
        LET out == printed[1]
        IN  /\ \A i \in 1..Len(out) :
                 out[i].ip \in DOMAIN final /\ out[i].bytes = final[out[i].ip]
            /\ \A i, j \in 1..Len(out) : i # j => out[i].ip # out[j].ip
            /\ \A i, j \in 1..Len(out) : i < j => out[i].bytes >= out[j].bytes
            /\ \A k \in DOMAIN final \ {out[i].ip : i \in 1..Len(out)} :
                 \A i \in 1..Len(out) : final[k] <= out[i].bytes

\* C16: in a run whose byte source returns an error other than EOF, Report
\* is never executed and main never returns normally, and under fair
\* scheduling the process ends failed (Error.Fatalln, or a panic before it).
ReadErrorIsFatal ==
    /\ [](failAt # -1 => (~Reported /\ printed = <<>> /\ mpc = "loop" /\ ~closed1))
    /\ ((failAt # -1) ~> (failed \/ crashed # ""))

\* The read error ended the process after a partial tally had been merged
\* into final.
ReadErrorIsFatalWitness ==
    /\ failed
    /\ BagCardinality(merged) >= 1
    /\ final # EmptyMap

\* Combiner.Start is about to call Report.
AtReport == cpc = "recv" /\ chan3 = <<>> /\ closed3

\* C18: with an empty tally at report time, Report prints no line and does
\* not end the process, and under fair scheduling chan4 is then closed and
\* main returns.
EmptyTallyReport ==
    /\ []((closed3 /\ chan3 = <<>> /\ final = EmptyMap) =>
            (crashed = "" /\ (Reported => printed = << <<>> >>)))
    /\ ((AtReport /\ final = EmptyMap) ~> (closed4 /\ mpc = "returned"))

\* A run over at least one chunk ended with an empty tally and an empty
\* report.
EmptyTallyReportWitness ==
    /\ mpc = "returned" /\ closed4
    /\ final = EmptyMap
    /\ printed = << <<>> >>
    /\ Len(emitted) >= 1

\* The record a well-formed log line stands for.
RecordOf(line) ==
    [orig  |-> Split(line, TAB)[OrigField + 1],
     resp  |-> Split(line, TAB)[RespField + 1],
     bytes |-> Atoi(Split(line, TAB)[Bytes1Field + 1])
                 + Atoi(Split(line, TAB)[Bytes2Field + 1])]

\* The records of the lines that are not comment lines, in order.
RecordsOf(lines) ==
    LET kept == SelectSeq(lines, LAMBDA l : ~IsComment(l))
    IN  [n \in 1..Len(kept) |-> RecordOf(kept[n])]

\* No chunk sent holds a padding byte of a block.
NoPadding == \A i \in 1..Len(emitted) : NUL \notin Range(emitted[i].bytes)

ChunksInFlight == Len(pheld) + BagCardinality(parsing)
BatchesInFlight == Len(rdheld) + BagCardinality(reducing)

\* C19: at most ParserPool + 1 chunks are taken from chan1 and not yet
\* answered on chan2, and at most ReducerPool + 1 batches are taken from
\* chan2 and not yet answered on chan3.
InFlightWithinPool ==
    /\ ChunksInFlight <= cfg.ParserPool + 1
    /\ BatchesInFlight <= cfg.ReducerPool + 1
    /\ cfg = ProgramConfig =>
         ChunksInFlight <= ParserPool + 1 /\ BatchesInFlight <= ReducerPool + 1

\* ParserPool + 1 chunks are in flight while a further chunk waits on chan1.
InFlightWithinPoolWitness ==
    /\ cfg = ProgramConfig
    /\ ChunksInFlight = ParserPool + 1
    /\ chan1 # <<>>

\* C20: every chunk Reader.Start sends holds at least one byte.
NoEmptyChunk == \A i \in 1..Len(emitted) : Len(emitted[i].bytes) >= 1

\* A chunk of one byte was sent from a single block, with no leftovers in
\* front of it.
NoEmptyChunkWitness ==
    \E i \in 1..Len(emitted) : Len(emitted[i].bytes) = 1 /\ emitted[i].reads = 1

====
